---- MODULE Spec2Model ----
(***************************************************************************)
(* Model of the submission-intake endpoint of the QR garbage reporter     *)
(* (src/app/api/submit/route.ts): schema validation, the in-memory        *)
(* idempotency map, the email dispatch through the Resend transport and   *)
(* the response envelopes.  Requests are handled concurrently on one      *)
(* JavaScript event loop: a handler runs atomically between two awaits.   *)
(***************************************************************************)
EXTENDS Integers, Sequences, FiniteSets, TLC

(***************************************************************************)
(* Bounds of the model.                                                    *)
(***************************************************************************)
MaxReq == 2          \* number of POST requests handled by the process
TickMs == 60000      \* granularity of the modelled wall clock
MaxNow == 360000     \* the clock stops advancing here

(***************************************************************************)
(* Constants of the program.                                               *)
(***************************************************************************)
MinuteMs == 60000    \* getIdempotencyKey: Date.now() / 60000
WindowMs == 300000   \* POST: Date.now() - existing.timestamp < 300000
SweepAgeMs == 300000 \* POST: cutoff = Date.now() - 300000
TimeoutMs == 15000   \* sendEmailReport: AbortSignal.timeout(15000)

Requests == 1..MaxReq

(***************************************************************************)
(* JSON values of the request body.  A value carries its JavaScript type;  *)
(* numbers are fixed-point integers (coordinates in 1e-5 degree, epoch     *)
(* timestamps in 0.1 ms, accuracies in metres).                            *)
(***************************************************************************)
Undef == [t |-> "undefined", n |-> 0, s |-> ""]
Num(n) == [t |-> "number", n |-> n, s |-> ""]
Str(s) == [t |-> "string", n |-> 0, s |-> s]

\* the coordinate d + e / 100000 degrees, in 1e-5 degree
Deg(d, e) == d * 100000 + e

\* the epoch time m + tenth / 10 milliseconds, in 0.1 ms
Ms(m, tenth) == m * 10 + tenth

Uuid1 == "a0d4b216-f4cf-4219-822b-f83e49a6cccb"
Uuid2 == "3f2c1e9a-7b64-4d0e-9a51-0c8d7e6f5a4b"
Uuid3 == "7c9e6679-7425-40de-944b-e07fc1f90ae7"
NotUuid == "not-a-uuid"

\* the strings of the model that match zod's UUID pattern
UuidShaped == {Uuid1, Uuid2, Uuid3}

Payload(lat, lon, accuracy, timestamp, nonce, message, photo) ==
    [wellFormed |-> TRUE, lat |-> lat, lon |-> lon, accuracy |-> accuracy,
     timestamp |-> timestamp, client_nonce |-> nonce, message |-> message,
     photoBase64 |-> photo]

\* a request body that request.json() cannot parse
Unparseable ==
    [wellFormed |-> FALSE, lat |-> Undef, lon |-> Undef, accuracy |-> Undef,
     timestamp |-> Undef, client_nonce |-> Undef, message |-> Undef,
     photoBase64 |-> Undef]

NoBody == Unparseable

\* lat 37.7749, lon -122.4194, without optional fields
BodyPlain ==
    Payload(Num(Deg(37, 77490)), Num(Deg(-123, 58060)), Undef, Undef,
            Str(Uuid1), Undef, Undef)
\* a position 2e-5 degree away (same 4-decimal rounding), all fields present
BodyFull ==
    Payload(Num(Deg(37, 77492)), Num(Deg(-123, 58062)), Num(10),
            Num(Ms(1000, 0)), Str(Uuid1), Str("Boxes behind bus stop"),
            Str("data:image/jpeg;base64,QUJD"))
\* a position that rounds to another 4-decimal cell
BodyNear ==
    Payload(Num(Deg(37, 77496)), Num(Deg(-123, 58060)), Undef, Undef,
            Str(Uuid1), Undef, Undef)
\* another nonce, on the boundary of the coordinate domain
BodyEdge ==
    Payload(Num(Deg(90, 0)), Num(Deg(-180, 0)), Undef, Undef,
            Str(Uuid2), Undef, Undef)
BodyLatHigh ==
    Payload(Num(Deg(90, 1)), Num(Deg(-123, 58060)), Undef, Undef,
            Str(Uuid1), Undef, Undef)
BodyLatLow ==
    Payload(Num(Deg(-90, -1)), Num(Deg(-123, 58060)), Undef, Undef,
            Str(Uuid1), Undef, Undef)
BodyLonHigh ==
    Payload(Num(Deg(37, 77490)), Num(Deg(180, 1)), Undef, Undef,
            Str(Uuid1), Undef, Undef)
BodyBadNonce ==
    Payload(Num(Deg(37, 77490)), Num(Deg(-123, 58060)), Undef, Undef,
            Str(NotUuid), Undef, Undef)

Bodies ==
    {BodyPlain, BodyFull, BodyEdge, BodyLatHigh, BodyLatLow, BodyLonHigh,
     BodyBadNonce, Unparseable}

\* bodies that differ from BodyPlain in one optional field or in one type;
\* FieldBodies probes the fields one by one
BodyNegAccuracy ==
    Payload(Num(Deg(37, 77490)), Num(Deg(-123, 58060)), Num(-1), Undef,
            Str(Uuid1), Undef, Undef)
BodyFracTimestamp ==
    Payload(Num(Deg(37, 77490)), Num(Deg(-123, 58060)), Undef,
            Num(Ms(1000, 5)), Str(Uuid2), Undef, Undef)
BodyLatString ==
    Payload(Str("37.7749"), Num(Deg(-123, 58060)), Undef, Undef,
            Str(Uuid1), Undef, Undef)
BodyLonString ==
    Payload(Num(Deg(37, 77490)), Str("-122.4194"), Undef, Undef,
            Str(Uuid1), Undef, Undef)
BodyAccuracyString ==
    Payload(Num(Deg(37, 77490)), Num(Deg(-123, 58060)), Str("10"), Undef,
            Str(Uuid1), Undef, Undef)
BodyTimestampString ==
    Payload(Num(Deg(37, 77490)), Num(Deg(-123, 58060)), Undef,
            Str("1970-01-01T00:00:01Z"), Str(Uuid1), Undef, Undef)
BodyNonceNumber ==
    Payload(Num(Deg(37, 77490)), Num(Deg(-123, 58060)), Undef, Undef,
            Num(7), Undef, Undef)
BodyMessageNumber ==
    Payload(Num(Deg(37, 77490)), Num(Deg(-123, 58060)), Undef, Undef,
            Str(Uuid1), Num(7), Undef)
BodyPhotoNumber ==
    Payload(Num(Deg(37, 77490)), Num(Deg(-123, 58060)), Undef, Undef,
            Str(Uuid1), Undef, Num(7))

\* a photo that is base64 without the data-URL prefix, and an empty photo
BodyPhotoRaw ==
    Payload(Num(Deg(37, 77490)), Num(Deg(-123, 58060)), Undef, Undef,
            Str(Uuid1), Undef, Str("QUJD"))
BodyPhotoEmpty ==
    Payload(Num(Deg(37, 77490)), Num(Deg(-123, 58060)), Undef, Undef,
            Str(Uuid2), Undef, Str(""))

FieldBodies ==
    {BodyPlain, BodyFull, BodyNear, BodyNegAccuracy, BodyFracTimestamp,
     BodyLatString, BodyLonString, BodyAccuracyString, BodyTimestampString,
     BodyNonceNumber, BodyMessageNumber, BodyPhotoNumber, BodyPhotoRaw,
     BodyPhotoEmpty}

(***************************************************************************)
(* submitSchema                                                            *)
(***************************************************************************)
IsNumber(v) == v.t = "number"
IsString(v) == v.t = "string"
IsOptional(v, ok) == v.t = "undefined" \/ ok

\* a mutation: the upper bound of lat is not enforced
submitSchemaNoLatMax(body) ==
    /\ IsNumber(body.lat) /\ body.lat.n >= Deg(-90, 0)
    /\ IsNumber(body.lon) /\ body.lon.n >= Deg(-180, 0)
                          /\ body.lon.n <= Deg(180, 0)
    /\ IsOptional(body.accuracy, IsNumber(body.accuracy))
    /\ IsOptional(body.timestamp, IsNumber(body.timestamp))
    /\ IsString(body.client_nonce) /\ body.client_nonce.s \in UuidShaped
    /\ IsOptional(body.message, IsString(body.message))
    /\ IsOptional(body.photoBase64, IsString(body.photoBase64))

submitSchema(body) ==
    /\ IsNumber(body.lat) /\ body.lat.n >= Deg(-90, 0)
                          /\ body.lat.n <= Deg(90, 0)
    /\ IsNumber(body.lon) /\ body.lon.n >= Deg(-180, 0)
                          /\ body.lon.n <= Deg(180, 0)
    /\ IsOptional(body.accuracy, IsNumber(body.accuracy))
    /\ IsOptional(body.timestamp, IsNumber(body.timestamp))
    /\ IsString(body.client_nonce) /\ body.client_nonce.s \in UuidShaped
    /\ IsOptional(body.message, IsString(body.message))
    /\ IsOptional(body.photoBase64, IsString(body.photoBase64))

(***************************************************************************)
(* getIdempotencyKey.  Math.round(x * 10000) is floor(x * 10000 + 0.5);    *)
(* the key string joins four fields with commas, none of which contains a  *)
(* comma, so the key is modelled by the tuple of the fields.               *)
(***************************************************************************)
Round4(n) == (n + 5) \div 10

\* a mutation: the coordinates enter the key unrounded
getIdempotencyKeyUnrounded(data, t) ==
    <<data.lat.n, data.lon.n, t \div MinuteMs, data.client_nonce.s>>

getIdempotencyKey(data, t) ==
    <<Round4(data.lat.n), Round4(data.lon.n), t \div MinuteMs,
      data.client_nonce.s>>

NoKey == <<>>

(***************************************************************************)
(* Response envelopes and the result of sendEmailReport.                   *)
(***************************************************************************)
SuccessBody(reference) == [status |-> "success", reference |-> reference]
ErrorBody(code, message) ==
    [status |-> "error", code |-> code, message |-> message]
HttpResponse(status, body) == [status |-> status, body |-> body]
NoResponse == HttpResponse(0, [status |-> "none"])

EmailSent(reference) == [success |-> TRUE, reference |-> reference]
EmailFailed(error) == [success |-> FALSE, error |-> error]
NoResult == EmailFailed("")

\* what the transport can do with one call: accept the email and assign an
\* identifier, answer a non-2xx status, not answer within the timeout, or
\* answer 2xx with a body that is not JSON
TransportOutcomes == {"ok", "non2xx", "timeout", "badjson"}

\* logWithCorrelation: the entry written to the console; data is the set of
\* the fields of its data object
LogEntry(correlationId, level, message, data) ==
    [correlationId |-> correlationId, level |-> level, message |-> message,
     data |-> data]

\* what a throw inside POST hands to its catch block
Thrown(isZodError, message) ==
    [isZodError |-> isZodError, message |-> message]

(***************************************************************************)
(* The geographic gate.                                                    *)
(***************************************************************************)
\* SF_BOUNDS of the source
SfBounds ==
    [north |-> Deg(37, 83240), south |-> Deg(37, 70490),
     east |-> Deg(-123, 65180), west |-> Deg(-123, 47230)]

isInSanFrancisco(lat, lon) ==
    /\ lat >= SfBounds.south /\ lat <= SfBounds.north
    /\ lon >= SfBounds.west /\ lon <= SfBounds.east

\* a mutation: the bounds check of POST is uncommented
boundsCheckUncommented == TRUE

\* the bounds check of POST is commented out
boundsCheckEnabled == FALSE

(***************************************************************************)
(* The email handed to the transport.                                      *)
(***************************************************************************)
\* the strings of the model that hold no comma
CommaFree == {"data:image/jpeg;base64", "QUJD", "Boxes behind bus stop"}

\* s.split(",") for a string with at most one comma: the pieces that give
\* s back when joined with a comma
splitComma(s) ==
    LET pairs == {<<a, b>> : a \in CommaFree, b \in CommaFree}
        halves == {p \in pairs : s = p[1] \o "," \o p[2]}
    IN  IF halves # {} THEN CHOOSE p \in halves : TRUE ELSE <<s>>

\* a non-empty string is truthy; undefined and "" are not
Truthy(v) == IsString(v) /\ v.s # ""

\* sendEmailReport: the attachments array
attachmentsOf(data) ==
    IF Truthy(data.photoBase64)
    THEN LET parts == splitComma(data.photoBase64.s)
         IN  <<[filename |-> "photo.jpg",
                content |-> IF Len(parts) >= 2 THEN Str(parts[2])
                            ELSE Undef]>>
    ELSE <<>>

\* sendEmailReport: the parts of emailPayload that come from the request
emailPayload(data, correlationId) ==
    [reportId |-> data.client_nonce.s, correlationId |-> correlationId,
     message |-> IF Truthy(data.message) THEN data.message.s
                 ELSE "No message provided.",
     attachments |-> attachmentsOf(data)]

NoPayload ==
    [reportId |-> "", correlationId |-> 0, message |-> "",
     attachments |-> <<>>]

(***************************************************************************)
(* State.                                                                  *)
(***************************************************************************)
VARIABLES
    recentSubmissions,  \* the idempotency map: key -> [timestamp, response]
    now,                \* Date.now()
    apiKey,             \* whether process.env.RESEND_API_KEY is set
    nextId,             \* the identifier the transport assigns next
    req,                \* the frame of each POST invocation
    page                \* the state of the ReportPage component

vars == <<recentSubmissions, now, apiKey, nextId, req, page>>

\* The frame of a POST invocation.  pc, body, idempotencyKey, emailResult and
\* response are the locals of POST; log holds the entries it has emitted
\* (its correlationId is the request itself).  The other fields record its
\* history: the fetch calls made, the branch taken, the steps performed, the
\* valid requests answered before it was received, the clock at the lookup
\* and at the record write, what the transport did and the id it assigned,
\* and the email handed to fetch.
IdleFrame ==
    [pc |-> "idle", body |-> NoBody, idempotencyKey |-> NoKey,
     emailResult |-> NoResult, response |-> NoResponse, fetches |-> 0,
     path |-> "", log |-> <<>>, steps |-> <<>>, prior |-> {},
     checkedAt |-> -1, settledAt |-> -1, outcome |-> "", assignedId |-> 0,
     emailPayload |-> NoPayload]

(***************************************************************************)
(* The page of the client.  state, location, response, error, message and  *)
(* photo are the state of ReportPage.  geolocation tells whether           *)
(* navigator.geolocation exists, sent is the body handed to fetch.         *)
(* The other fields record history: the value state had before the last    *)
(* setState call, the number of submitReport calls, the number of their    *)
(* requests that never reached the server, and what the last awaited       *)
(* promise did.                                                            *)
(***************************************************************************)
Null == [null |-> TRUE]

PageInit(geolocation) ==
    [state |-> "idle", location |-> Null, response |-> Null, error |-> "",
     message |-> "", photo |-> Null, geolocation |-> geolocation,
     sent |-> NoBody, last |-> "idle", attempts |-> 0, lost |-> 0,
     settled |-> ""]

Init ==
    /\ page = PageInit(TRUE)
    /\ recentSubmissions = <<>>
    /\ now = 0
    /\ apiKey \in BOOLEAN
    /\ nextId = 1
    /\ req = [r \in Requests |-> IdleFrame]
(***************************************************************************)
(* The steps of POST and sendEmailReport.                                  *)
(***************************************************************************)
\* a mutation: the lookup matches on position and nonce only and has no
\* window test
existingAnyTime(key, t) ==
    {recentSubmissions[k] :
        k \in {j \in DOMAIN recentSubmissions :
                  j[1] = key[1] /\ j[2] = key[2] /\ j[4] = key[4]}}

\* a mutation: the window test is inverted
existingExpired(key, t) ==
    {recentSubmissions[k] :
        k \in {j \in DOMAIN recentSubmissions :
                  /\ j = key
                  /\ t - recentSubmissions[j].timestamp > WindowMs}}

\* recentSubmissions.get(key) when it passes the window test: the set holds
\* the record served as a duplicate hit, or nothing
existingLive(key, t) ==
    {recentSubmissions[k] :
        k \in {j \in DOMAIN recentSubmissions :
                  /\ j = key
                  /\ t - recentSubmissions[j].timestamp < WindowMs}}

\* a mutation: fetch is called whether or not the key is configured
missingApiKeyIgnored == FALSE

\* !process.env.RESEND_API_KEY
missingApiKey == ~apiKey

\* a mutation: a record that exists is not overwritten
setSubmissionIfAbsent(store, key, t, response) ==
    [k \in DOMAIN store \cup {key} |->
        IF k \in DOMAIN store THEN store[k]
        ELSE [timestamp |-> t, response |-> response]]

\* recentSubmissions.set(key, {timestamp, response})
setSubmission(store, key, t, response) ==
    [k \in DOMAIN store \cup {key} |->
        IF k = key THEN [timestamp |-> t, response |-> response]
        ELSE store[k]]

\* a mutation: the cutoff of the clean-up is twice the window
sweepLateCutoff(store, t) ==
    [k \in {j \in DOMAIN store :
               ~(store[j].timestamp < t - 2 * SweepAgeMs)} |-> store[k]]

\* a mutation: the cutoff of the clean-up is one minute
sweepEarlyCutoff(store, t) ==
    [k \in {j \in DOMAIN store : ~(store[j].timestamp < t - MinuteMs)} |->
        store[k]]

\* the clean-up loop: delete every entry with timestamp < cutoff
sweep(store, t) ==
    [k \in {j \in DOMAIN store : ~(store[j].timestamp < t - SweepAgeMs)} |->
        store[k]]

\* a mutation: a non-2xx answer is not told from a 2xx answer
emailResultOfAnyStatus(outcome, id) ==
    CASE outcome = "ok" -> EmailSent(id)
      [] outcome = "non2xx" -> EmailSent(0)
      [] outcome = "timeout" -> EmailFailed("The operation was aborted")
      [] outcome = "badjson" -> EmailFailed("Unexpected token in JSON")

\* a mutation: the reference is read from a field the transport does not set
emailResultOfNoId(outcome, id) ==
    CASE outcome = "ok" -> EmailSent(0)
      [] outcome = "non2xx" -> EmailFailed("Email API error: 503")
      [] outcome = "timeout" -> EmailFailed("The operation was aborted")
      [] outcome = "badjson" -> EmailFailed("Unexpected token in JSON")

\* sendEmailReport after fetch has settled: the transport accepted the email
\* and assigned id, or answered a non-2xx status, or did not answer within
\* the timeout, or answered 2xx with a body that is not JSON
emailResultOf(outcome, id) ==
    CASE outcome = "ok" -> EmailSent(id)
      [] outcome = "non2xx" -> EmailFailed("Email API error: 503")
      [] outcome = "timeout" -> EmailFailed("The operation was aborted")
      [] outcome = "badjson" -> EmailFailed("Unexpected token in JSON")

\* the response built from emailResult ({status, reference})
responseOf(result) ==
    SuccessBody(IF result.success THEN result.reference ELSE 0)

\* a mutation: the record is written before emailResult.success is tested
storeAfterDispatchUntested(store, key, t, result) ==
    setSubmission(store, key, t, responseOf(result))

\* a mutation: whatever POST answers is recorded, the error envelope too
storeAfterDispatchAnyAnswer(store, key, t, result) ==
    IF result.success
    THEN setSubmission(store, key, t, responseOf(result))
    ELSE setSubmission(store, key, t,
             ErrorBody("server_error", "Internal server error"))

\* a mutation: a failed dispatch refreshes the creation time of the record
\* of its fingerprint
storeAfterDispatchTouching(store, key, t, result) ==
    IF result.success
    THEN setSubmission(store, key, t, responseOf(result))
    ELSE IF key \in DOMAIN store
         THEN [store EXCEPT ![key].timestamp = t]
         ELSE store

\* POST after sendEmailReport: a failure throws before the record is set
storeAfterDispatch(store, key, t, result) ==
    IF result.success
    THEN setSubmission(store, key, t, responseOf(result))
    ELSE store

\* a mutation: the server error is sent without its status
errorResponseNoStatus(isZodError) ==
    IF isZodError
    THEN HttpResponse(400, ErrorBody("bad_request", "Invalid request data"))
    ELSE HttpResponse(200, ErrorBody("server_error", "Internal server error"))

\* a mutation: only a ZodError is answered, any other error leaves POST
errorResponseZodOnly(isZodError) ==
    IF isZodError
    THEN HttpResponse(400, ErrorBody("bad_request", "Invalid request data"))
    ELSE NoResponse

\* the catch block of POST: the two responses
errorResponse(isZodError) ==
    IF isZodError
    THEN HttpResponse(400, ErrorBody("bad_request", "Invalid request data"))
    ELSE HttpResponse(500, ErrorBody("server_error", "Internal server error"))

\* ZodError.message lists the issues of the parse: here the first field at
\* fault
zodMessage(body) ==
    IF ~(/\ IsNumber(body.lat) /\ body.lat.n >= Deg(-90, 0)
                               /\ body.lat.n <= Deg(90, 0))
    THEN "lat"
    ELSE IF ~(/\ IsNumber(body.lon) /\ body.lon.n >= Deg(-180, 0)
                                    /\ body.lon.n <= Deg(180, 0))
    THEN "lon"
    ELSE IF ~IsOptional(body.accuracy, IsNumber(body.accuracy))
    THEN "accuracy"
    ELSE IF ~IsOptional(body.timestamp, IsNumber(body.timestamp))
    THEN "timestamp"
    ELSE IF ~(IsString(body.client_nonce)
              /\ body.client_nonce.s \in UuidShaped)
    THEN "client_nonce"
    ELSE IF ~IsOptional(body.message, IsString(body.message))
    THEN "message"
    ELSE "photoBase64"

\* a mutation: the message of the error is sent to the client
caughtEcho(error) ==
    IF error.isZodError
    THEN HttpResponse(400, ErrorBody("bad_request", error.message))
    ELSE HttpResponse(500, ErrorBody("server_error", error.message))

\* a mutation: the SyntaxError of request.json() is answered as a fault of
\* the client
caughtSyntaxAsBadRequest(error) ==
    errorResponse(error.isZodError
                  \/ error.message = "Unexpected end of JSON input")

\* the catch block of POST: of the error, only its class reaches the response
caught(error) == errorResponse(error.isZodError)

\* NextResponse.json(body) without init: status 200
okResponse(body) == HttpResponse(200, body)

\* the entries POST and sendEmailReport write for request r
Started(r) == LogEntry(r, "info", "Report submission started", {"ip"})
Duplicate(r) ==
    LogEntry(r, "info", "Duplicate submission detected", {"idempotencyKey"})
OutOfBounds(r) ==
    LogEntry(r, "warn", "Location out of bounds",
             {"lat", "lon", "client_nonce"})
EmailSentLog(r) ==
    LogEntry(r, "info", "Email sent successfully",
             {"messageId", "to", "nonce"})
SendFailed(r) == LogEntry(r, "error", "Failed to send email", {"error"})
Completed(r) ==
    LogEntry(r, "info", "Report submission completed",
             {"duration", "status"})
ApiError(r) == LogEntry(r, "error", "API error", {"error", "duration"})

\* a mutation: a failed fetch is tried once more
dispatchFailedRetrying(f, r, result, write) ==
    IF f.pc = "fetching" /\ f.fetches < 2
    THEN [f EXCEPT !.fetches = 2]
    ELSE [f EXCEPT !.pc = "done", !.emailResult = result,
                   !.response = caught(Thrown(FALSE, result.error)),
                   !.steps = f.steps \o write \o <<"respond">>,
                   !.log = f.log \o <<SendFailed(r), ApiError(r)>>]

\* sendEmailReport logs its failure and returns it; POST throws on it and
\* its catch block answers
dispatchFailed(f, r, result, write) ==
    [f EXCEPT !.pc = "done", !.emailResult = result,
              !.response = caught(Thrown(FALSE, result.error)),
              !.steps = f.steps \o write \o <<"respond">>,
              !.log = f.log \o <<SendFailed(r), ApiError(r)>>]

\* the requests that have been answered
Answered == {q \in Requests : req[q].pc = "done"}
\* those of them that passed validation
AnsweredValid == {q \in Answered : req[q].checkedAt >= 0}

(* POST from its invocation to the first await that another request can    *)
(* observe: the body is read and validated, the idempotency map is         *)
(* consulted and, on a miss, sendEmailReport runs up to its fetch.         *)
Receive(r, body) ==
    /\ req[r].pc = "idle"
    /\ \A q \in 1..(r - 1) : req[q].pc # "idle"
    /\ LET f == [req[r] EXCEPT !.body = body]
           key == getIdempotencyKey(body, now)
           hits == existingLive(key, now)
           checked == [f EXCEPT !.idempotencyKey = key, !.checkedAt = now,
                                !.prior = AnsweredValid]
       IN  IF ~body.wellFormed
           THEN \* request.json() rejects
                req' = [req EXCEPT ![r] = [f EXCEPT
                    !.pc = "done", !.path = "json_error",
                    !.response =
                        caught(Thrown(FALSE, "Unexpected end of JSON input")),
                    !.steps = <<"respond">>,
                    !.log = <<Started(r), ApiError(r)>>]]
           ELSE IF ~submitSchema(body)
           THEN \* submitSchema.parse throws a ZodError
                req' = [req EXCEPT ![r] = [f EXCEPT
                    !.pc = "done", !.path = "invalid",
                    !.response = caught(Thrown(TRUE, zodMessage(body))),
                    !.steps = <<"validate", "respond">>,
                    !.log = <<Started(r), ApiError(r)>>]]
           ELSE IF hits # {}
           THEN \E existing \in hits :
                req' = [req EXCEPT ![r] = [checked EXCEPT
                    !.pc = "done", !.path = "hit",
                    !.response = okResponse(existing.response),
                    !.steps = <<"validate", "dedupe-check", "respond">>,
                    !.log = <<Started(r), Duplicate(r)>>]]
           ELSE IF boundsCheckEnabled
                   /\ ~isInSanFrancisco(body.lat.n, body.lon.n)
           THEN req' = [req EXCEPT ![r] = [checked EXCEPT
                    !.pc = "done", !.path = "out_of_bounds",
                    !.response = HttpResponse(400,
                        ErrorBody("out_of_bounds",
                          "Location must be within San Francisco city limits")),
                    !.steps = <<"validate", "dedupe-check", "respond">>,
                    !.log = <<Started(r), OutOfBounds(r)>>]]
           ELSE IF missingApiKey
           THEN \* sendEmailReport throws before fetch and returns a failure
                req' = [req EXCEPT ![r] = dispatchFailed(
                    [checked EXCEPT
                        !.path = "no_key",
                        !.steps = <<"validate", "dedupe-check", "dispatch">>,
                        !.log = <<Started(r)>>],
                    r, EmailFailed("RESEND_API_KEY not configured"), <<>>)]
           ELSE \* fetch is called and POST is suspended on it
                req' = [req EXCEPT ![r] = [checked EXCEPT
                    !.pc = "fetching", !.path = "sent",
                    !.fetches = f.fetches + 1,
                    !.emailPayload = emailPayload(body, r),
                    !.steps = <<"validate", "dedupe-check", "dispatch">>,
                    !.log = <<Started(r)>>]]
    /\ UNCHANGED <<recentSubmissions, now, apiKey, nextId, page>>

(* The fetch of request r settles with the given outcome; sendEmailReport  *)
(* returns and POST runs to its response.  doSweep is Math.random() < 0.01.*)
Settle(r, outcome, doSweep) ==
    /\ req[r].pc = "fetching"
    /\ LET f == [req[r] EXCEPT !.outcome = outcome,
                               !.assignedId =
                                   IF outcome = "ok" THEN nextId ELSE 0]
           result == emailResultOf(outcome, nextId)
           key == f.idempotencyKey
           written == storeAfterDispatch(recentSubmissions, key, now, result)
           wrote == IF key \in DOMAIN recentSubmissions
                    THEN written[key] # recentSubmissions[key]
                    ELSE key \in DOMAIN written
           write == IF wrote THEN <<"dedupe-write">> ELSE <<>>
       IN  IF result.success
           THEN /\ recentSubmissions' =
                       IF doSweep THEN sweep(written, now) ELSE written
                /\ req' = [req EXCEPT ![r] = [f EXCEPT
                       !.pc = "done", !.emailResult = result,
                       !.response = okResponse(responseOf(result)),
                       !.settledAt = now,
                       !.steps = f.steps \o write \o <<"respond">>,
                       !.log = f.log \o <<EmailSentLog(r), Completed(r)>>]]
           ELSE /\ ~doSweep
                /\ recentSubmissions' = written
                /\ req' = [req EXCEPT ![r] =
                       dispatchFailed(f, r, result, write)]
    /\ nextId' = IF outcome = "ok" THEN nextId + 1 ELSE nextId
    /\ UNCHANGED <<now, apiKey, page>>

(* The wall clock advances.  A pending fetch is aborted TimeoutMs after    *)
(* its call, which is less than a tick of the modelled clock: a pending    *)
(* fetch sees the clock advance at most once.                              *)
(* POST depends on the clock through differences and through the position  *)
(* within the minute only: the first request arrives within the first      *)
(* minute, and the clock is not followed once every request is answered.   *)
Tick ==
    /\ now + TickMs <= MaxNow
    /\ req[1].pc = "idle" => now + TickMs < MinuteMs
    /\ Answered # Requests
    /\ \A r \in Requests :
           req[r].pc = "fetching" => now - req[r].checkedAt < TimeoutMs
    /\ now' = now + TickMs
    /\ UNCHANGED <<recentSubmissions, apiKey, nextId, req, page>>

Next ==
    \/ \E r \in Requests, body \in Bodies : Receive(r, body)
    \/ \E r \in Requests, outcome \in TransportOutcomes,
          doSweep \in BOOLEAN : Settle(r, outcome, doSweep)
    \/ Tick

Spec == Init /\ [][Next]_vars

\* the same handler, receiving the bodies that probe the fields one by one
FieldNext ==
    \/ \E r \in Requests, body \in FieldBodies : Receive(r, body)
    \/ \E r \in Requests, outcome \in TransportOutcomes,
          doSweep \in BOOLEAN : Settle(r, outcome, doSweep)
    \/ Tick

FieldSpec == Init /\ [][FieldNext]_vars

\* the same handler with few bodies, under the assumption that every fetch
\* settles: the transport answers, or AbortSignal.timeout aborts the call
FairBodies == {BodyPlain, BodyEdge, BodyLatHigh, Unparseable}

FairNext ==
    \/ \E r \in Requests, body \in FairBodies : Receive(r, body)
    \/ \E r \in Requests, outcome \in TransportOutcomes,
          doSweep \in BOOLEAN : Settle(r, outcome, doSweep)
    \/ Tick

FairSpec ==
    /\ Init /\ [][FairNext]_vars
    /\ \A r \in Requests :
           WF_vars(\E outcome \in TransportOutcomes, doSweep \in BOOLEAN :
                      Settle(r, outcome, doSweep))

(* The process keeps serving: the frame of an answered request is dropped  *)
(* and serves the next invocation of POST.  The frames of the requests     *)
(* that called the transport are kept, which bounds the calls and the      *)
(* identifiers the transport assigns.                                      *)
Forget(r) ==
    /\ req[r].pc = "done"
    /\ req[r].fetches = 0
    /\ req' = [req EXCEPT ![r] = IdleFrame]
    /\ UNCHANGED <<recentSubmissions, now, apiKey, nextId, page>>

ServingBodies == {BodyPlain, BodyLatHigh}

ServingNext ==
    \/ \E r \in Requests, body \in ServingBodies : Receive(r, body)
    \/ \E r \in Requests, outcome \in TransportOutcomes,
          doSweep \in BOOLEAN : Settle(r, outcome, doSweep)
    \/ Tick
    \/ \E r \in Requests : Forget(r)

\* requests keep arriving, every fetch settles, and Math.random() < 0.01 is
\* not false forever for the requests that evaluate it
ServingSpec ==
    /\ Init /\ [][ServingNext]_vars
    /\ WF_vars(\E r \in Requests, body \in ServingBodies : Receive(r, body))
    /\ WF_vars(\E r \in Requests : Forget(r))
    /\ \A r \in Requests :
           WF_vars(\E outcome \in TransportOutcomes, doSweep \in BOOLEAN :
                      Settle(r, outcome, doSweep))
    /\ SF_vars(\E r \in Requests : Settle(r, "ok", TRUE))
(***************************************************************************)
(* The client: the handlers of ReportPage.  A handler runs to its next     *)
(* await in one step; getCurrentPosition and fetch settle in steps of      *)
(* their own.  resizeImage is taken to settle before the next event of     *)
(* the page, so that message and photo change in state idle only and what  *)
(* submitReport reads is what the page holds.                              *)
(***************************************************************************)
\* what getCurrentPosition can resolve with (coords)
Positions ==
    {[latitude |-> Deg(37, 77490), longitude |-> Deg(-123, 58060),
      accuracy |-> 10]}

\* the codes of GeolocationPositionError
PERMISSION_DENIED == 1
POSITION_UNAVAILABLE == 2
TIMEOUT == 3

\* what the user types in the textarea
Messages == {"Boxes behind bus stop"}

\* the files the user can pick: one over 10MB, one resizeImage can draw and
\* one it cannot
Files == {"large", "image", "broken"}

\* crypto.randomUUID() returns a value that no earlier call returned; the
\* server compares nonces for equality only, so the n + 1st call is given
\* the n + 1st of the UUIDs of the model
Uuids == <<Uuid1, Uuid2, Uuid3>>

\* a mutation: the nonce is drawn once, when the page is mounted
generateClientNonceOnce(n) == Uuids[1]

generateClientNonce(n) == Uuids[n + 1]

\* setState(s); last is the value it replaces
setState(p, s) == [p EXCEPT !.last = p.state, !.state = s]

\* the switch of requestLocation's catch block
geolocationError(code) ==
    CASE code = PERMISSION_DENIED ->
             "Location access denied. Please enable location and try again."
      [] code = POSITION_UNAVAILABLE ->
             "Location information unavailable. Please try again."
      [] code = TIMEOUT -> "Location request timed out. Please try again."
      [] OTHER -> "An error occurred while getting your location."

\* the body submitReport hands to fetch: JSON.stringify(payload) leaves an
\* undefined photoBase64 out
payloadOf(locationData, message, photo, nonce) ==
    Payload(Num(locationData.lat), Num(locationData.lon),
            Num(locationData.accuracy), Num(locationData.timestamp),
            Str(nonce), Str(message),
            IF photo = Null THEN Undef ELSE Str(photo.dataUrl))

\* submitReport after fetch and res.json() have resolved
submitSettled(p, res) ==
    IF res.status \in 200..299
    THEN setState([p EXCEPT !.response = res.body, !.settled = "ok"],
                  "success")
    ELSE setState([p EXCEPT
             !.error = IF "message" \in DOMAIN res.body
                          /\ res.body.message # ""
                       THEN res.body.message
                       ELSE "Failed to submit report. Please try again.",
             !.settled = "not-ok"], "error")

\* a mutation: retry leaves the photo attached
retryKeepingPhoto(p) ==
    [setState(p, "idle") EXCEPT
        !.location = Null, !.response = Null, !.error = "", !.message = "",
        !.settled = ""]

retry(p) ==
    [setState(p, "idle") EXCEPT
        !.location = Null, !.response = Null, !.error = "", !.message = "",
        !.photo = Null, !.settled = ""]

server == <<recentSubmissions, now, apiKey, nextId, req>>

\* the slot of the server that the request of the last submitReport call
\* takes: requests reach the server in the order they were sent
Slot == page.attempts - page.lost

\* onChange of the textarea, which is rendered in state idle
OnChangeMessage(m) ==
    /\ page.state = "idle"
    /\ page.message # m
    /\ page' = [page EXCEPT !.message = m]
    /\ UNCHANGED server

\* handleFileChange, resizeImage included; the file input is rendered in
\* state idle
HandleFileChange(file) ==
    /\ page.state = "idle"
    /\ page' =
         CASE file = "large" ->
                  [page EXCEPT !.error =
                    "File is too large. Please select an image under 10MB."]
           [] file = "image" ->
                  [page EXCEPT
                      !.photo = [name |-> "photo.jpg",
                                 dataUrl |-> "data:image/jpeg;base64,QUJD"],
                      !.error = ""]
           [] OTHER ->
                  [page EXCEPT
                      !.error =
                        "Could not process image. Please try another one.",
                      !.photo = Null]
    /\ page' # page
    /\ UNCHANGED server

\* the button that removes the attached photo, rendered in state idle
RemovePhoto ==
    /\ page.state = "idle"
    /\ page.photo # Null
    /\ page' = [page EXCEPT !.photo = Null]
    /\ UNCHANGED server

\* requestLocation up to its await (the click on "Allow Location & Report")
RequestLocation ==
    /\ page.state = "idle"
    /\ LET p == [setState(page, "requesting-location") EXCEPT !.error = ""]
       IN  page' = IF ~page.geolocation
                   THEN setState([p EXCEPT
                       !.error =
                           "Geolocation is not supported by this browser.",
                       !.settled = "unsupported"], "error")
                   ELSE p
    /\ UNCHANGED server

\* getCurrentPosition resolves: requestLocation sets the location and
\* submitReport runs up to its fetch
PositionResolves(position) ==
    /\ page.state = "requesting-location"
    /\ page.attempts < MaxReq
    /\ LET locationData ==
               [lat |-> position.latitude, lon |-> position.longitude,
                accuracy |-> position.accuracy, timestamp |-> Ms(now, 0)]
           nonce == generateClientNonce(page.attempts)
       IN  page' = setState([page EXCEPT
               !.location = locationData,
               !.sent = payloadOf(locationData, page.message, page.photo,
                                nonce),
               !.attempts = @ + 1, !.settled = "position"], "submitting")
    /\ UNCHANGED server

\* getCurrentPosition rejects
PositionRejects(code) ==
    /\ page.state = "requesting-location"
    /\ page' = setState([page EXCEPT !.error = geolocationError(code),
                                     !.settled = "rejected"], "error")
    /\ UNCHANGED server

\* the request of the last submitReport call reaches the server
Arrive(r) ==
    /\ r = Slot
    /\ Receive(r, page.sent)

\* fetch resolves with the response of POST, and res.json() with its body
FetchResolves ==
    /\ page.state = "submitting"
    /\ Slot \in Requests
    /\ req[Slot].pc = "done"
    /\ page' = submitSettled(page, req[Slot].response)
    /\ UNCHANGED server

\* fetch rejects: the request did not reach the server, or its response
\* did not reach the page
FetchRejects ==
    /\ page.state = "submitting"
    /\ page' = setState([page EXCEPT
           !.error =
               "Network error. Please check your connection and try again.",
           !.lost = IF req[Slot].pc = "idle" THEN @ + 1 ELSE @,
           !.settled = "network"], "error")
    /\ UNCHANGED server

\* the click on "Report Another Issue" or "Try Again"
Retry ==
    /\ page.state \in {"success", "error"}
    /\ page' = retry(page)
    /\ UNCHANGED server

\* the session of the page lasts less than a tick of the modelled clock,
\* and the transport accepts the email or answers a non-2xx status
UiOutcomes == {"ok", "non2xx"}

UiInit ==
    /\ page \in {PageInit(geolocation) : geolocation \in BOOLEAN}
    /\ recentSubmissions = <<>>
    /\ now = 0
    /\ apiKey \in BOOLEAN
    /\ nextId = 1
    /\ req = [r \in Requests |-> IdleFrame]

UiNext ==
    \/ \E m \in Messages \cup {""} : OnChangeMessage(m)
    \/ \E file \in Files : HandleFileChange(file)
    \/ RemovePhoto
    \/ RequestLocation
    \/ \E position \in Positions : PositionResolves(position)
    \/ \E code \in {PERMISSION_DENIED, POSITION_UNAVAILABLE, TIMEOUT} :
          PositionRejects(code)
    \/ \E r \in Requests : Arrive(r)
    \/ \E r \in Requests, outcome \in UiOutcomes, doSweep \in BOOLEAN :
          Settle(r, outcome, doSweep)
    \/ FetchResolves
    \/ FetchRejects
    \/ Retry

UiSpec == UiInit /\ [][UiNext]_vars

(***************************************************************************)
(* Vocabulary of the claims.                                               *)
(***************************************************************************)
BadRequest400 ==
    HttpResponse(400, ErrorBody("bad_request", "Invalid request data"))
ServerError500 ==
    HttpResponse(500, ErrorBody("server_error", "Internal server error"))

IsDone(r) == req[r].pc = "done"
\* the request passed validation and consulted the idempotency map
Checked(r) == req[r].checkedAt >= 0
\* the transport accepted the email of the request
Delivered(r) == IsDone(r) /\ req[r].outcome = "ok"
\* the request was answered with a success envelope
Succeeded(r) == IsDone(r) /\ req[r].response.status = 200
\* the dispatch of the request failed at the transport
TransportFailed(r) == IsDone(r) /\ req[r].outcome \in {"non2xx", "timeout"}

\* position rounded to 4 decimals and nonce
IdentityOf(r) ==
    <<Round4(req[r].body.lat.n), Round4(req[r].body.lon.n),
      req[r].body.client_nonce.s>>
\* the fingerprint: identity and the minute in which the request was checked
FingerprintOf(r) == <<IdentityOf(r), req[r].checkedAt \div MinuteMs>>

\* q was answered before r was received, and both were checked
Before(q, r) == q # r /\ q \in req[r].prior /\ Checked(q) /\ Checked(r)

\* lat outside [-90, 90], lon outside [-180, 180] or a nonce that is no UUID
OutOfDomain(body) ==
    /\ body.wellFormed
    /\ \/ IsNumber(body.lat) /\ body.lat.n < Deg(-90, 0)
       \/ IsNumber(body.lat) /\ body.lat.n > Deg(90, 0)
       \/ IsNumber(body.lon) /\ body.lon.n < Deg(-180, 0)
       \/ IsNumber(body.lon) /\ body.lon.n > Deg(180, 0)
       \/ ~(IsString(body.client_nonce)
            /\ body.client_nonce.s \in UuidShaped)

Has(steps, step) == \E i \in 1..Len(steps) : steps[i] = step

(***************************************************************************)
(* C1: a request whose payload has lat or lon outside its domain or a      *)
(* nonce that is not a UUID is answered 400 bad_request in the step that   *)
(* receives it, without a transport call, without a computed key and       *)
(* without a dedupe-check, dispatch or dedupe-write step.                  *)
(***************************************************************************)
C1_InvalidRejected ==
    \A r \in Requests :
        (req[r].pc # "idle" /\ OutOfDomain(req[r].body)) =>
            /\ IsDone(r)
            /\ req[r].response = BadRequest400
            /\ req[r].fetches = 0
            /\ req[r].idempotencyKey = NoKey
            /\ req[r].steps = <<"validate", "respond">>

\* an out-of-domain payload was rejected while the map holds a record
C1_Witness ==
    \E r \in Requests :
        /\ IsDone(r) /\ OutOfDomain(req[r].body)
        /\ req[r].body.lat.n > Deg(90, 0)
        /\ DOMAIN recentSubmissions # {}

(***************************************************************************)
(* C2, as claimed: of two submissions with the same fingerprint, the       *)
(* second received after the first was answered, the second returns the    *)
(* body of the first and the transport is called at most once for the two. *)
(***************************************************************************)
C2_AsClaimed ==
    \A r1, r2 \in Requests :
        (Before(r1, r2) /\ IsDone(r2) /\ FingerprintOf(r1) = FingerprintOf(r2))
            => /\ req[r2].response.body = req[r1].response.body
               /\ req[r1].fetches + req[r2].fetches <= 1

(***************************************************************************)
(* C2, amended: when a submission is received after a submission with the  *)
(* same fingerprint was answered with success, it is answered at once with *)
(* the body of an earlier successful submission with that fingerprint and  *)
(* the transport is not called for it.                                     *)
(***************************************************************************)
C2_DuplicateServed ==
    \A r1, r2 \in Requests :
        (Before(r1, r2) /\ Succeeded(r1)
         /\ FingerprintOf(r1) = FingerprintOf(r2))
            => /\ IsDone(r2)
               /\ req[r2].fetches = 0
               /\ req[r1].fetches + req[r2].fetches <= 1
               /\ \E q \in Requests :
                      /\ Before(q, r2) /\ Succeeded(q)
                      /\ FingerprintOf(q) = FingerprintOf(r2)
                      /\ req[r2].response = req[q].response

\* a duplicate whose coordinates differ below the fourth decimal was served
C2_Witness ==
    \E r1, r2 \in Requests :
        /\ Before(r1, r2) /\ Succeeded(r1)
        /\ FingerprintOf(r1) = FingerprintOf(r2)
        /\ req[r1].body # req[r2].body
        /\ req[r2].path = "hit"
        /\ req[r2].response = req[r1].response

(***************************************************************************)
(* C3, as claimed: when the same request is replayed less than the window  *)
(* after its first submission succeeded, in whatever minute, the replay    *)
(* does not return a reference other than the first one.                   *)
(***************************************************************************)
C3_AsClaimed ==
    \A r1, r2 \in Requests :
        (/\ Before(r1, r2) /\ Delivered(r1) /\ Succeeded(r1)
         /\ req[r2].body = req[r1].body
         /\ req[r2].checkedAt - req[r1].settledAt < WindowMs
         /\ Succeeded(r2))
            => req[r2].response.body.reference
                   = req[r1].response.body.reference
(***************************************************************************)
(* C4: a record whose age has reached the window is not served: every hit  *)
(* returns the response of a submission delivered less than the window     *)
(* before, and a request that repeats the position and nonce of delivered  *)
(* submissions, all of them at least the window old, misses the map and    *)
(* calls the transport.                                                    *)
(***************************************************************************)
\* r1 was delivered with the position and nonce of r2
Repeats(r1, r2) ==
    Before(r1, r2) /\ Delivered(r1) /\ IdentityOf(r1) = IdentityOf(r2)
AgeAt(r1, r2) == req[r2].checkedAt - req[r1].settledAt

C4_ExpiredNotServed ==
    \A r2 \in Requests :
        Checked(r2) =>
            /\ req[r2].path = "hit" =>
                   \E q \in Requests :
                       /\ Before(q, r2) /\ Delivered(q)
                       /\ req[q].response = req[r2].response
                       /\ AgeAt(q, r2) < WindowMs
            /\ (/\ \E r1 \in Requests : Repeats(r1, r2)
                /\ \A r1 \in Requests :
                       Repeats(r1, r2) => AgeAt(r1, r2) >= WindowMs)
                   => req[r2].path = "sent" /\ req[r2].fetches = 1

\* the same request again, a full window after its record was written, was
\* sent to the transport
C4_Witness ==
    \E r1, r2 \in Requests :
        /\ Repeats(r1, r2) /\ req[r1].body = req[r2].body
        /\ AgeAt(r1, r2) >= WindowMs
        /\ req[r1].idempotencyKey \in DOMAIN recentSubmissions
        /\ Delivered(r2)

(***************************************************************************)
(* C5: when the transport call of a request times out or is answered with  *)
(* a non-2xx status, the request is answered 500 server_error, the step    *)
(* that answers it leaves the idempotency map unchanged, and a request     *)
(* with the same fingerprint received after it (no submission with that    *)
(* fingerprint having succeeded) calls the transport.                      *)
(***************************************************************************)
C5_FailureLeavesStore ==
    /\ [](\A r \in Requests :
             TransportFailed(r) => req[r].response = ServerError500)
    /\ [](\A r1, r2 \in Requests :
             (/\ Before(r1, r2) /\ TransportFailed(r1)
              /\ FingerprintOf(r1) = FingerprintOf(r2)
              /\ \A q \in Requests :
                     ~(/\ Before(q, r2) /\ Succeeded(q)
                       /\ FingerprintOf(q) = FingerprintOf(r2)))
                 => req[r2].path = "sent" /\ req[r2].fetches = 1)
    /\ [][\A r \in Requests :
             (/\ req[r].pc = "fetching" /\ req'[r].pc = "done"
              /\ req'[r].outcome \in {"non2xx", "timeout"})
                 => recentSubmissions' = recentSubmissions]_vars

\* after a failed dispatch the retry with the same fingerprint succeeded
C5_Witness ==
    \E r1, r2 \in Requests :
        /\ Before(r1, r2) /\ TransportFailed(r1)
        /\ FingerprintOf(r1) = FingerprintOf(r2)
        /\ Delivered(r2) /\ Succeeded(r2)

(***************************************************************************)
(* C6: the steps of a request are taken in the order validate,             *)
(* dedupe-check, dispatch, dedupe-write, respond, none without the ones    *)
(* before it except that a hit or a failure skips to respond; a record is  *)
(* written by a request only after its own transport call succeeded.       *)
(***************************************************************************)
Rank(step) ==
    CASE step = "validate" -> 1
      [] step = "dedupe-check" -> 2
      [] step = "dispatch" -> 3
      [] step = "dedupe-write" -> 4
      [] step = "respond" -> 5

C6_PipelineOrder ==
    /\ \A r \in Requests :
           LET steps == req[r].steps
           IN  /\ \A i \in 1..(Len(steps) - 1) :
                      Rank(steps[i]) < Rank(steps[i + 1])
               /\ Has(steps, "dedupe-check") => Has(steps, "validate")
               /\ Has(steps, "dispatch") => Has(steps, "dedupe-check")
               /\ Has(steps, "dedupe-write") =>
                      Has(steps, "dispatch") /\ req[r].outcome = "ok"
               /\ Has(steps, "respond") <=> IsDone(r)
    /\ \A k \in DOMAIN recentSubmissions :
           \E q \in Requests :
               /\ Delivered(q) /\ Has(req[q].steps, "dedupe-write")
               /\ req[q].idempotencyKey = k
               /\ req[q].response.body = recentSubmissions[k].response
               /\ req[q].settledAt = recentSubmissions[k].timestamp

\* a request went through all five steps after another one's dispatch failed
C6_Witness ==
    \E r1, r2 \in Requests :
        /\ req[r1].steps = <<"validate", "dedupe-check", "dispatch",
                             "dedupe-write", "respond">>
        /\ req[r2].steps = <<"validate", "dedupe-check", "dispatch",
                             "respond">>
        /\ req[r2].fetches = 1

(***************************************************************************)
(* C7: a valid request that misses the map and whose transport call is     *)
(* accepted with identifier X is answered 200 {success, reference: X};     *)
(* the reference of every success response is an identifier the transport  *)
(* assigned.                                                               *)
(***************************************************************************)
C7_ReferenceIsTransportId ==
    /\ \A r \in Requests :
           Delivered(r) =>
               req[r].response
                   = HttpResponse(200, SuccessBody(req[r].assignedId))
    /\ \A r \in Requests :
           Succeeded(r) =>
               \E q \in Requests :
                   /\ Delivered(q)
                   /\ req[r].response.body = SuccessBody(req[q].assignedId)

\* a payload with every optional field and one with none were delivered
C7_Witness ==
    \E r1, r2 \in Requests :
        /\ Delivered(r1) /\ req[r1].body = BodyFull
        /\ Delivered(r2) /\ req[r2].body = BodyPlain
        /\ req[r1].response.body.reference # req[r2].response.body.reference

IsDuplicate(r) ==
    \E q \in Requests :
        /\ Before(q, r) /\ Succeeded(q)
        /\ FingerprintOf(q) = FingerprintOf(r)

C9_NoKeyFailsFast ==
    ~apiKey =>
        /\ DOMAIN recentSubmissions = {}
        /\ \A r \in Requests :
               /\ req[r].fetches = 0
               /\ Checked(r) =>
                      /\ IsDone(r)
                      /\ Has(req[r].steps, "dispatch")
                      /\ ~req[r].emailResult.success
                      /\ req[r].response = ServerError500

\* two valid requests with the same fingerprint both failed without a key
C9_Witness ==
    /\ ~apiKey
    /\ \E r1, r2 \in Requests :
           /\ Before(r1, r2) /\ FingerprintOf(r1) = FingerprintOf(r2)
           /\ IsDone(r2) /\ req[r2].response.status = 500

(***************************************************************************)
(* C10: every response is a success envelope or an error envelope, and     *)
(* its status is 200 exactly for a success envelope, 400 exactly for an    *)
(* error with code bad_request or out_of_bounds, 500 exactly for an error  *)
(* with code server_error.                                                 *)
(***************************************************************************)
IsSuccessEnvelope(b) ==
    DOMAIN b = {"status", "reference"} /\ b.status = "success"
IsErrorEnvelope(b, codes) ==
    /\ DOMAIN b = {"status", "code", "message"}
    /\ b.status = "error" /\ b.code \in codes

C10_StatusMatchesBody ==
    \A r \in Requests :
        IsDone(r) =>
            LET status == req[r].response.status
                b == req[r].response.body
            IN  /\ status \in {200, 400, 500}
                /\ status = 200 <=> IsSuccessEnvelope(b)
                /\ status = 400 <=>
                       IsErrorEnvelope(b, {"bad_request", "out_of_bounds"})
                /\ status = 500 <=> IsErrorEnvelope(b, {"server_error"})

\* a duplicate hit answered with the cached success envelope
C10_Witness ==
    \E r \in Requests :
        /\ IsDone(r) /\ req[r].path = "hit"
        /\ req[r].response.status = 200
        /\ IsSuccessEnvelope(req[r].response.body)

(***************************************************************************)
(* C11, as claimed: a payload that breaks a field constraint of the        *)
(* submission payload (a negative accuracy, a timestamp that is not an     *)
(* integer, a photo that is not a data URL, a field of the wrong type) is  *)
(* answered 400 bad_request and reaches neither the idempotency map nor    *)
(* the transport.                                                          *)
(***************************************************************************)
NegativeAccuracy(body) == IsNumber(body.accuracy) /\ body.accuracy.n < 0
FractionalTimestamp(body) ==
    IsNumber(body.timestamp) /\ body.timestamp.n % Ms(1, 0) # 0
\* the data URL with the given prefix and base64 payload
DataUrl(prefix, payload) == prefix \o "," \o payload
\* a photo that is not in data-URL form
MalformedPhoto(body) ==
    /\ IsString(body.photoBase64)
    /\ \A payload \in {"QUJD"} :
           body.photoBase64.s # DataUrl("data:image/jpeg;base64", payload)
WrongType(body) ==
    \/ ~IsNumber(body.lat) \/ ~IsNumber(body.lon)
    \/ ~(body.accuracy = Undef \/ IsNumber(body.accuracy))
    \/ ~(body.timestamp = Undef \/ IsNumber(body.timestamp))
    \/ ~IsString(body.client_nonce)
    \/ ~(body.message = Undef \/ IsString(body.message))
    \/ ~(body.photoBase64 = Undef \/ IsString(body.photoBase64))

C11_AsClaimed ==
    \A r \in Requests :
        (/\ req[r].pc # "idle" /\ req[r].body.wellFormed
         /\ \/ NegativeAccuracy(req[r].body)
            \/ FractionalTimestamp(req[r].body)
            \/ MalformedPhoto(req[r].body)
            \/ WrongType(req[r].body)) =>
            /\ IsDone(r)
            /\ req[r].response = BadRequest400
            /\ ~Checked(r)
            /\ req[r].fetches = 0

\* the part of C11 the schema does enforce: a field of the wrong type
C11_WrongTypeRejected ==
    \A r \in Requests :
        (req[r].pc # "idle" /\ req[r].body.wellFormed
         /\ WrongType(req[r].body)) =>
            /\ IsDone(r)
            /\ req[r].response = BadRequest400
            /\ ~Checked(r)
            /\ req[r].fetches = 0

(***************************************************************************)
(* C12: the response to a failed request depends on the class of the error *)
(* only.  Two requests answered 400 have the same response whatever field  *)
(* each failed on, two requests answered 500 have the same response        *)
(* whatever made each fail (unreadable body, missing key, non-2xx answer,  *)
(* timeout, unparseable answer), and each response is the fixed envelope   *)
(* of its class, so that the same holds across runs.                       *)
(***************************************************************************)
IsErrorResponse(r) == IsDone(r) /\ req[r].response.status # 200
\* what made the request fail: the message of the error that was caught
CauseOf(r) ==
    CASE req[r].path = "invalid" -> zodMessage(req[r].body)
      [] req[r].path = "json_error" -> "Unexpected end of JSON input"
      [] OTHER -> req[r].emailResult.error

C12_ErrorsLeakNothing ==
    /\ \A r \in Requests :
           IsErrorResponse(r) =>
               req[r].response = IF req[r].path = "invalid"
                                 THEN BadRequest400 ELSE ServerError500
    /\ \A r1, r2 \in Requests :
           (/\ IsErrorResponse(r1) /\ IsErrorResponse(r2)
            /\ (req[r1].path = "invalid") = (req[r2].path = "invalid"))
               => req[r1].response = req[r2].response

\* two dispatches failed for different reasons, or two payloads were
\* rejected on different fields, and the two responses are the same
C12_Witness ==
    \E r1, r2 \in Requests :
        /\ IsErrorResponse(r1) /\ IsErrorResponse(r2)
        /\ req[r1].path = req[r2].path
        /\ req[r1].path \in {"sent", "invalid"}
        /\ CauseOf(r1) # CauseOf(r2)
        /\ req[r1].response = req[r2].response

(***************************************************************************)
(* C13: every request that is received is eventually answered with one of  *)
(* the three responses (200, 400, 500), whatever validation and the        *)
(* transport do, provided its fetch settles; it is answered once: the      *)
(* frame of an answered request never changes again, and a request is      *)
(* never left in a state other than waiting for its fetch or answered.     *)
(***************************************************************************)
IsAnswered(r) == IsDone(r) /\ req[r].response.status \in {200, 400, 500}

C13_EveryRequestCompletes ==
    /\ \A r \in Requests : (req[r].pc # "idle") ~> IsAnswered(r)
    /\ [](\A r \in Requests :
             /\ req[r].pc \in {"idle", "fetching", "done"}
             /\ (req[r].response # NoResponse) <=> IsDone(r))
    /\ [][\A r \in Requests : IsDone(r) => req'[r] = req[r]]_vars

\* every request is answered: one after a fetch that timed out or whose
\* answer could not be parsed, another without a fetch
C13_Witness ==
    /\ \A r \in Requests : IsAnswered(r)
    /\ \E r \in Requests : req[r].outcome \in {"timeout", "badjson"}
    /\ \E r \in Requests : req[r].path \in {"invalid", "json_error", "no_key",
                                            "hit"}

(***************************************************************************)
(* C14, as claimed: while requests keep arriving and the sweep trigger is  *)
(* fair, every record that is in the idempotency map past the window is    *)
(* eventually removed from the map.                                        *)
(***************************************************************************)
\* the keys a request of the model can compute
ServingKeys ==
    {getIdempotencyKey(body, t) :
        body \in {b \in ServingBodies : b.wellFormed /\ submitSchema(b)},
        t \in {n * TickMs : n \in 0..(MaxNow \div TickMs)}}

IsExpired(k) ==
    /\ k \in DOMAIN recentSubmissions
    /\ now - recentSubmissions[k].timestamp > SweepAgeMs

Raced(r1, r2) ==
    /\ r1 # r2 /\ Checked(r1) /\ Checked(r2)
    /\ req[r1].idempotencyKey = req[r2].idempotencyKey
    /\ r1 \notin req[r2].prior
    /\ \A q \in req[r2].prior :
           ~(Delivered(q) /\ req[q].idempotencyKey = req[r2].idempotencyKey)

\* the accepted requests that wrote the record of key k
WritersOf(k) == {q \in Requests : Delivered(q) /\ req[q].idempotencyKey = k}

C15_LastWriteWins ==
    /\ \A r1, r2 \in Requests :
           (Delivered(r1) /\ Raced(r1, r2)) =>
               /\ req[r2].path = "sent"
               /\ req[r1].fetches = 1 /\ req[r2].fetches = 1
               /\ Delivered(r2) =>
                      req[r1].response.body.reference #
                          req[r2].response.body.reference
    /\ \A k \in DOMAIN recentSubmissions :
           \E q \in WritersOf(k) :
               /\ recentSubmissions[k].response = req[q].response.body
               /\ \A p \in WritersOf(k) :
                      req[p].assignedId <= req[q].assignedId

\* two requests with one key were both accepted, each before the other was
\* answered; the clients hold different references and the map holds the
\* later one
C15_Witness ==
    \E r1, r2 \in Requests :
        /\ Delivered(r1) /\ Delivered(r2)
        /\ Raced(r1, r2) /\ Raced(r2, r1)
        /\ req[r1].assignedId < req[r2].assignedId
        /\ req[r1].response.body.reference # req[r2].response.body.reference
        /\ req[r1].idempotencyKey \in DOMAIN recentSubmissions
        /\ recentSubmissions[req[r1].idempotencyKey].response =
               req[r2].response.body

(***************************************************************************)
(* C16: in every step, a record that leaves the idempotency map is older   *)
(* than the window on the clock of that step (the clean-up loop runs       *)
(* within one step, so this is the clock at which the sweep starts and     *)
(* ends): a lookup on that clock would not serve it.  Every record that a  *)
(* step writes, and every record that the step finds younger, is in the    *)
(* map after the step, whatever other requests are waiting for their       *)
(* fetch.                                                                  *)
(***************************************************************************)
C16_SweepRemovesOnlyExpired ==
    [][/\ recentSubmissions' # recentSubmissions => now' = now
       /\ \A k \in DOMAIN recentSubmissions :
              k \notin DOMAIN recentSubmissions' =>
                  /\ now - recentSubmissions[k].timestamp > SweepAgeMs
                  /\ ~(now - recentSubmissions[k].timestamp < WindowMs)
                  /\ existingLive(k, now) = {}
       /\ \A k \in DOMAIN recentSubmissions :
              now - recentSubmissions[k].timestamp <= SweepAgeMs =>
                  k \in DOMAIN recentSubmissions'
       /\ \A r \in Requests :
              (req[r].pc = "fetching" /\ Delivered(r)') =>
                  /\ req[r].idempotencyKey \in DOMAIN recentSubmissions'
                  /\ recentSubmissions'[req[r].idempotencyKey].timestamp = now
      ]_vars

\* a sweep removed the record of an accepted request and kept the record
\* written in the same step
C16_Witness ==
    \E r1, r2 \in Requests :
        /\ Delivered(r1) /\ Delivered(r2)
        /\ req[r1].idempotencyKey \notin DOMAIN recentSubmissions
        /\ req[r2].idempotencyKey \in DOMAIN recentSubmissions
        /\ req[r2].settledAt - req[r1].settledAt > SweepAgeMs

(***************************************************************************)
(* C17, as claimed: every answered request, whatever its path, has emitted *)
(* a log entry that carries its duration and its outcome, and every entry  *)
(* of its log is stamped with its correlation identifier.                  *)
(***************************************************************************)
\* the entry carries the duration and the outcome (the status of the
\* response or the message of the error)
ReportsOutcome(entry) ==
    /\ "duration" \in entry.data
    /\ entry.data \cap {"status", "error"} # {}

C17_AsClaimed ==
    \A r \in Requests :
        IsDone(r) =>
            /\ \E i \in 1..Len(req[r].log) : ReportsOutcome(req[r].log[i])
            /\ \A i \in 1..Len(req[r].log) : req[r].log[i].correlationId = r

\* the part of C17 that holds: the paths other than the duplicate hit
C17_ExceptDuplicates ==
    \A r \in Requests :
        (IsDone(r) /\ req[r].path # "hit") =>
            /\ ReportsOutcome(req[r].log[Len(req[r].log)])
            /\ \A i \in 1..Len(req[r].log) : req[r].log[i].correlationId = r

(***************************************************************************)
(* C18: a request calls the transport at most once; the step in which its  *)
(* call settles answers the request, so that after a failed call (non-2xx, *)
(* timeout, unparseable answer) the request has made one call and is       *)
(* answered 500 server_error.                                              *)
(***************************************************************************)
CallFailed(r) == req[r].outcome \in {"non2xx", "timeout", "badjson"}

C18_NoRetry ==
    /\ [](\A r \in Requests :
             /\ req[r].fetches <= 1
             /\ CallFailed(r) =>
                    /\ IsDone(r)
                    /\ req[r].fetches = 1
                    /\ req[r].response = ServerError500)
    /\ [][\A r \in Requests :
             (req[r].pc = "fetching" /\ req'[r] # req[r]) =>
                 /\ IsDone(r)'
                 /\ req'[r].fetches = req[r].fetches]_vars

\* a call timed out and another was refused; each request made one call
C18_Witness ==
    \E r1, r2 \in Requests :
        /\ IsDone(r1) /\ req[r1].outcome = "timeout" /\ req[r1].fetches = 1
        /\ IsDone(r2) /\ req[r2].outcome = "non2xx" /\ req[r2].fetches = 1
        /\ req[r1].response = ServerError500

(***************************************************************************)
(* C19: no response carries the code out_of_bounds, and a request whose    *)
(* valid payload lies outside the San Francisco bounding box goes through  *)
(* the lookup and the dispatch as any valid payload does: it is served     *)
(* from the map as a duplicate, or it calls the transport once when the    *)
(* API key is configured, or it fails for the missing key; when its email  *)
(* is accepted it is answered 200 with the identifier of the transport.    *)
(***************************************************************************)
OutsideSanFrancisco(r) ==
    Checked(r) /\ ~isInSanFrancisco(req[r].body.lat.n, req[r].body.lon.n)

C19_GateDisabled ==
    \A r \in Requests :
        /\ req[r].path # "out_of_bounds"
        /\ ~IsErrorEnvelope(req[r].response.body, {"out_of_bounds"})
        /\ OutsideSanFrancisco(r) =>
               /\ Has(req[r].steps, "dedupe-check")
               /\ \/ req[r].path = "hit" /\ Succeeded(r)
                  \/ req[r].path = "sent" /\ req[r].fetches = 1 /\ apiKey
                  \/ req[r].path = "no_key" /\ ~apiKey
               /\ Delivered(r) =>
                      req[r].response =
                          okResponse(SuccessBody(req[r].assignedId))

\* a payload outside the box was dispatched with success and its replay
\* was served from the map
C19_Witness ==
    \E r1, r2 \in Requests :
        /\ OutsideSanFrancisco(r1) /\ Delivered(r1)
        /\ OutsideSanFrancisco(r2) /\ req[r2].path = "hit"
        /\ req[r2].response = req[r1].response

(***************************************************************************)
(* C20, as claimed: the email handed to the transport has one attachment   *)
(* when the payload has a photo and none when it has none, and the content *)
(* of the attachment is the base64 payload of the photo, without the       *)
(* data-URL prefix.                                                        *)
(***************************************************************************)
PhotoOf(r) == req[r].body.photoBase64
AttachmentsOf(r) == req[r].emailPayload.attachments
\* the base64 payload of a photo: what follows the prefix of a data URL,
\* and the whole of a string that has no prefix
Base64Of(s) ==
    IF \E payload \in {"QUJD"} : s = DataUrl("data:image/jpeg;base64", payload)
    THEN CHOOSE payload \in {"QUJD"} :
             s = DataUrl("data:image/jpeg;base64", payload)
    ELSE s

C20_AsClaimed ==
    \A r \in Requests :
        req[r].fetches > 0 =>
            IF Truthy(PhotoOf(r))
            THEN AttachmentsOf(r) =
                     <<[filename |-> "photo.jpg",
                        content |-> Str(Base64Of(PhotoOf(r).s))]>>
            ELSE AttachmentsOf(r) = <<>>

\* the part of C20 that holds: the payloads without a photo and those whose
\* photo is a data URL
C20_DataUrlPhotos ==
    \A r \in Requests :
        (req[r].fetches > 0 /\ ~MalformedPhoto(req[r].body)) =>
            IF PhotoOf(r) = Undef
            THEN AttachmentsOf(r) = <<>>
            ELSE AttachmentsOf(r) =
                     <<[filename |-> "photo.jpg",
                        content |-> Str(Base64Of(PhotoOf(r).s))]>>

(***************************************************************************)
(* C21: in every reachable state, every record of the idempotency map      *)
(* holds a success envelope whose reference is the identifier the          *)
(* transport assigned in a call made for a request with the fingerprint    *)
(* of the record; no error envelope is stored, and a request answered      *)
(* from the map is answered 200 with a success envelope.                   *)
(***************************************************************************)
C21_StoreHoldsSuccesses ==
    /\ \A k \in DOMAIN recentSubmissions :
         LET response == recentSubmissions[k].response
         IN  /\ IsSuccessEnvelope(response)
             /\ \E q \in Requests :
                  /\ req[q].fetches > 0 /\ req[q].outcome = "ok"
                  /\ req[q].idempotencyKey = k
                  /\ req[q].assignedId = response.reference
    /\ \A r \in Requests :
         req[r].path = "hit" =>
             /\ req[r].response.status = 200
             /\ IsSuccessEnvelope(req[r].response.body)

\* a duplicate was answered from the record of a delivered request
C21_Witness ==
    \E r1, r2 \in Requests :
      /\ Delivered(r1)
      /\ req[r2].path = "hit"
      /\ req[r2].idempotencyKey \in DOMAIN recentSubmissions
      /\ req[r2].response.body.reference = req[r1].assignedId

(***************************************************************************)
(* C22: the step that answers a request from the idempotency map, with a   *)
(* validation failure, with an unparseable body or with a failed dispatch  *)
(* leaves the map as it was, records and creation times included (no       *)
(* rewrite, no refresh, no sweep); the map changes only in the step in     *)
(* which a pending transport call succeeds and the request is answered     *)
(* 200.                                                                    *)
(***************************************************************************)
C22_OnlySuccessWrites ==
    [][/\ \A r \in Requests :
            (/\ req[r].pc # "done" /\ req'[r].pc = "done"
             /\ \/ req'[r].path \in {"hit", "invalid", "json_error", "no_key"}
                \/ req'[r].response.status # 200)
                => recentSubmissions' = recentSubmissions
       /\ recentSubmissions' # recentSubmissions =>
            \E r \in Requests :
               /\ req[r].pc = "fetching" /\ req'[r].pc = "done"
               /\ req'[r].outcome = "ok" /\ req'[r].emailResult.success
               /\ req'[r].response.status = 200
               /\ req'[r].idempotencyKey \in DOMAIN recentSubmissions'
      ]_vars

\* of two requests with one fingerprint that both called the transport, one
\* was delivered and the other failed, and the record of the first is in
\* the map
C22_Witness ==
    \E r1, r2 \in Requests :
      /\ Delivered(r1) /\ TransportFailed(r2)
      /\ req[r1].idempotencyKey = req[r2].idempotencyKey
      /\ req[r1].idempotencyKey \in DOMAIN recentSubmissions
      /\ recentSubmissions[req[r1].idempotencyKey].response
             = req[r1].response.body
      /\ recentSubmissions[req[r1].idempotencyKey].timestamp
             = req[r1].settledAt

(***************************************************************************)
(* C23: a request whose body is not JSON fails in request.json(), before   *)
(* validation, with an error that is no ZodError: it is answered 500       *)
(* server_error and not 400 bad_request, no fingerprint is computed, the   *)
(* transport is not called, and the step that answers it leaves the        *)
(* idempotency map unchanged.                                              *)
(***************************************************************************)
C23_UnparseableIs500 ==
    /\ [](\A r \in Requests :
            (IsDone(r) /\ ~req[r].body.wellFormed) =>
                /\ req[r].response = ServerError500
                /\ req[r].response # BadRequest400
                /\ ~Has(req[r].steps, "validate")
                /\ ~Has(req[r].steps, "dispatch")
                /\ req[r].idempotencyKey = NoKey
                /\ req[r].fetches = 0
                /\ req[r].emailPayload = NoPayload)
    /\ [][\A r \in Requests :
            (req[r].pc = "idle" /\ req'[r].pc # "idle"
             /\ ~req'[r].body.wellFormed)
                => /\ req'[r].pc = "done"
                   /\ recentSubmissions' = recentSubmissions
                   /\ nextId' = nextId]_vars

\* a request with an unparseable body was answered while the map held the
\* record of a delivered one
C23_Witness ==
    \E r1, r2 \in Requests :
      /\ Delivered(r1)
      /\ req[r1].idempotencyKey \in DOMAIN recentSubmissions
      /\ IsDone(r2) /\ req[r2].body = Unparseable

\* the request is one that the page sent and the server has received
FromPage(r) == req[r].pc # "idle"
\* r2 is a later attempt of the page than r1
Reattempt(r1, r2) == r1 < r2 /\ FromPage(r1) /\ FromPage(r2)

(***************************************************************************)
(* C24, as claimed: the attempts of the page carry different nonces, and   *)
(* a later attempt is never answered from the idempotency map and always   *)
(* calls the transport.                                                    *)
(***************************************************************************)
C24_AsClaimed ==
    \A r1, r2 \in Requests :
        Reattempt(r1, r2) =>
            /\ req[r1].body.client_nonce # req[r2].body.client_nonce
            /\ req[r2].path # "hit"
            /\ req[r2].fetches = 1

(***************************************************************************)
(* C24: every attempt of the page that reaches the server carries a UUID   *)
(* that no other attempt carries, so no two attempts have one fingerprint; *)
(* a later attempt is never answered from the idempotency map and, when    *)
(* the API key is configured, calls the transport once, also when an       *)
(* earlier attempt from the same position in the same minute was           *)
(* delivered; without the API key no attempt calls the transport.          *)
(***************************************************************************)
C24_FreshNonces ==
    /\ \A r \in Requests :
         FromPage(r) =>
             /\ req[r].body.client_nonce.s \in UuidShaped
             /\ req[r].path \in {"sent", "no_key"}
             /\ req[r].fetches = IF apiKey THEN 1 ELSE 0
    /\ \A r1, r2 \in Requests :
         Reattempt(r1, r2) =>
             /\ req[r1].body.client_nonce # req[r2].body.client_nonce
             /\ req[r1].idempotencyKey # req[r2].idempotencyKey
             /\ req[r2].path # "hit"

\* after the email of an attempt was delivered and its record written, a
\* later attempt from the same position in the same minute was delivered
\* too
C24_Witness ==
    \E r1, r2 \in Requests :
      /\ Reattempt(r1, r2)
      /\ Delivered(r1) /\ Delivered(r2) /\ r1 \in req[r2].prior
      /\ req[r1].body.lat = req[r2].body.lat
      /\ req[r1].body.lon = req[r2].body.lon
      /\ req[r1].checkedAt \div MinuteMs = req[r2].checkedAt \div MinuteMs
      /\ req[r1].assignedId # req[r2].assignedId
      /\ page.state = "success"

\* the moves of state: from the value it had to the value setState gives it
PageMoves ==
    {<<"idle", "requesting-location">>,
     <<"requesting-location", "submitting">>,
     <<"requesting-location", "error">>,
     <<"submitting", "success">>, <<"submitting", "error">>,
     <<"success", "idle">>, <<"error", "idle">>}

\* getCurrentPosition or fetch failed, or the response was not ok
PageFailed == page.settled \in {"unsupported", "rejected", "not-ok", "network"}

(***************************************************************************)
(* C25: every setState call of the page makes one of the moves idle ->     *)
(* requesting-location -> submitting -> success | error,                   *)
(* requesting-location -> error, and success | error -> idle.  In state    *)
(* submitting the location is set; in state success the server has         *)
(* answered the request of the attempt with a 2xx status and the page      *)
(* holds the body of that answer; after a geolocation failure, a non-ok    *)
(* response or a network error the state is error, and only then.  State   *)
(* success or error is left by retry only, which gives state idle with     *)
(* location, response, error, message and photo cleared.                   *)
(***************************************************************************)
C25_PageStateMachine ==
    /\ [](/\ <<page.last, page.state>> \in PageMoves \cup {<<"idle", "idle">>}
          /\ page.state = "submitting" =>
                 /\ page.location # Null
                 /\ page.settled = "position"
          /\ page.state = "success" =>
                 /\ page.location # Null
                 /\ page.settled = "ok"
                 /\ Slot \in Requests
                 /\ req[Slot].pc = "done"
                 /\ req[Slot].response.status \in 200..299
                 /\ req[Slot].body = page.sent
                 /\ page.response = req[Slot].response.body
          /\ PageFailed <=> page.state = "error"
          /\ page.state = "error" => page.error # "")
    /\ [][/\ (page.state \in {"success", "error"} /\ page' # page) =>
                 /\ page'.state = "idle"
                 /\ page'.location = Null
                 /\ page'.response = Null
                 /\ page'.error = ""
                 /\ page'.message = ""
                 /\ page'.photo = Null
          /\ (page.state # "idle" /\ page'.state = "idle") =>
                 page.state \in {"success", "error"}]_vars

\* a report with a message and a photo was answered with success, and retry
\* has cleared the page
C25_Witness ==
    /\ page.state = "idle" /\ page.last = "success"
    /\ page.sent.message = Str("Boxes behind bus stop")
    /\ page.sent.photoBase64 = Str("data:image/jpeg;base64,QUJD")
    /\ page.message = "" /\ page.photo = Null
    /\ page.location = Null /\ page.response = Null
====
